---- MODULE Spec2Model ----
(***************************************************************************)
(* A model of sniffer.py (dd-dependency-sniffer): the two dependency-tree  *)
(* parsers, the tiered copy of artifacts into the workspace, the call of   *)
(* the external search utility and the report printed from its matches.    *)
(*                                                                         *)
(* Text that the program inspects character by character (lines of the     *)
(* Gradle report, paths returned by the search utility) is a sequence of   *)
(* one-character strings.  File names, which the program only builds and   *)
(* compares, are TLA+ strings.                                             *)
(***************************************************************************)
EXTENDS Integers, Sequences, FiniteSets, TLC

VARIABLES
    \* ---- _copy_java_dependencies --------------------------------------
    deps,        \* the set[Dependency] handed to _copy_java_dependencies
    mavenHome,   \* os.path.exists(maven_home)
    gradleHome,  \* os.path.exists(gradle_home)
    env,         \* what the caches and the registry answer for each coordinate
    wsExists,    \* os.path.exists(WORKSPACE)
    ws,          \* the workspace: path (sequence of names) -> [kind, content]
    pc,          \* position inside _copy_java_dependencies
    pending,     \* coordinates the for loop has not reached yet
    cur,         \* the coordinate of the current iteration
    attempts,    \* per coordinate, the tiers called and what they answered
    status,      \* per coordinate: pending / resolved / missing / failed
    run,         \* 1 for the first invocation, 2 for the second
    firstNames,  \* the paths the workspace held when the first run ended
    stale,       \* what was put into the workspace between the two runs
    \* ---- _extract_maven_dependencies ----------------------------------
    parsed,      \* the JSON document: node id -> its fields and children
    roots,       \* the top-level object(s) of the document
    json_deps,   \* the work list
    dependencies,\* the result set
    visited,     \* the sequence of nodes popped so far
    jpc,
    \* ---- _extract_gradle_dependencies ---------------------------------
    gpc,
    nread,       \* lines consumed so far
    line,        \* the line of the current iteration
    emitted,     \* what the current line did: ignored, skipped, or a Dependency
    gdeps,       \* the result set
    \* ---- _analyze_java_dependencies -----------------------------------
    mode,        \* "package" (args.package given) or "artifact"
    tool,        \* what the search utility ends with: stderr, returncode, stdout
    rpc,
    result,      \* the list returned by _find_java_packages/_find_java_artifact
    grouped,     \* the dict `dependencies` of _analyze_java_dependencies
    output       \* the lines printed on stdout

copyVars   == <<deps, mavenHome, gradleHome, env, wsExists, ws, pc, pending, cur,
                attempts, status, run, firstNames, stale>>
jsonVars   == <<parsed, roots, json_deps, dependencies, visited, jpc>>
gradleVars == <<gpc, nread, line, emitted, gdeps>>
reportVars == <<mode, tool, rpc, result, grouped, output>>
vars       == <<copyVars, jsonVars, gradleVars, reportVars>>

(***************************************************************************)
(* Bounds of the model.                                                    *)
(***************************************************************************)
MaxDeps == 2          \* size of the coordinate set given to the copy
MaxNodes == 3         \* nodes of a JSON tree
MaxLines == 2         \* lines of a Gradle report
MaxLineTokens == 2    \* tokens of the raw version in a line of that report
MaxVersionTokens == 4 \* tokens of a raw version given to the normalization alone
MaxMatches == 5       \* matches the search utility returns

MAX_FILES_PER_DEPENDENCY == 3

(***************************************************************************)
(* Dependency (sniffer.py 39-73).                                          *)
(***************************************************************************)
Dependency(g, a, v, s, t) ==
    [group_id |-> g, artifact_id |-> a, version |-> v, scope |-> s, type |-> t]

\* Equality over all five fields.
DependencyEqAllFields(x, y) == x = y

\* Dependency.__eq__ : scope and type take no part.
DependencyEq(x, y) ==
    /\ x.group_id = y.group_id
    /\ x.artifact_id = y.artifact_id
    /\ x.version = y.version

\* set.add(x): the element already present wins.
SetAdd(S, x) == IF \E y \in S : DependencyEq(x, y) THEN S ELSE S \cup {x}

\* Dependency.__str__
Str(dep) == dep.group_id \o ":" \o dep.artifact_id \o ":" \o dep.version

IdleCopy ==
    /\ deps = {} /\ mavenHome = FALSE /\ gradleHome = FALSE /\ env = <<>>
    /\ wsExists = FALSE /\ ws = <<>> /\ pc = "idle" /\ pending = {}
    /\ cur = "none" /\ attempts = <<>> /\ status = <<>> /\ run = 0
    /\ firstNames = {} /\ stale = <<>>
IdleJson ==
    /\ parsed = <<>> /\ roots = <<>> /\ json_deps = <<>> /\ dependencies = {}
    /\ visited = <<>> /\ jpc = "idle"
IdleGradle ==
    /\ gpc = "idle" /\ nread = 0 /\ line = <<>> /\ emitted = [kind |-> "idle"] /\ gdeps = {}
IdleReport ==
    /\ mode = "none" /\ tool = "none" /\ rpc = "idle" /\ result = <<>>
    /\ grouped = <<>> /\ output = <<>>


(***************************************************************************)
(* _copy_java_dependencies and the three tiers (sniffer.py 170-259).       *)
(***************************************************************************)
\* The coordinates the copy is exercised with.  The first two differ in the
\* group only; the last two place the dash differently.
CopyUniverse ==
    { Dependency("com.g", "a", "1", "compile", "jar"),
      Dependency("com.h", "a", "1", "compile", "jar"),
      Dependency("com.g", "a", "1-1", "compile", "jar"),
      Dependency("com.g", "a-1", "1", "compile", "jar") }

\* A set the parsers can return: no two elements equal under __eq__.
DepSets ==
    { S \in SUBSET CopyUniverse :
        /\ Cardinality(S) <= MaxDeps
        /\ \A x, y \in S : DependencyEq(x, y) => x = y }

\* file_name = f"{dep.artifact_id}-{dep.version}.{dep.type}"  (214, 229, 248)
FileName(dep) == dep.artifact_id \o "-" \o dep.version \o "." \o dep.type

\* What a tier can answer.
\*   maven : hit   the artifact file exists and copyfile succeeds
\*           miss  os.path.exists(artifact_path) is false (returns None)
\*           err   copyfile raises before the destination is opened
\*   gradle: hit / miss (no version directory: False; no matching
\*           sub-directory: None) / err (iterdir or copyfile raises)
\*   remote: ok       urlopen answers 200 and the body is written
\*           httperr  urlopen raises URLError/HTTPError (4xx, 5xx, no route)
\*           non200   urlopen returns a response whose code is not 200
\*                    (a 2xx other than 200 raises nothing)
\*           readerr  remote.read() or local.write() raises an error that
\*                    is no URLError (OSError, IncompleteRead)
MavenOutcomes  == {"hit", "miss", "err"}
GradleOutcomes == {"hit", "miss", "err"}
RemoteOutcomes == {"ok", "httperr", "non200", "readerr"}

\* The caches and the registry answer the same way each time they are asked.
Answers(known, all) == IF known = "unknown" THEN all ELSE {known}

File(c) == [kind |-> "file", content |-> c]
Dir == [kind |-> "dir", content |-> ""]

\* open(path, "wb") followed by writing c: creates or truncates target/name.
WriteFile(w, name, c) ==
    [p \in DOMAIN w \cup {<<name>>} |-> IF p = <<name>> THEN File(c) ELSE w[p]]

\* What a workspace left over from earlier work may hold.
StaleSets ==
    { <<>>,
      (<<"stale.txt">> :> File("stale")),
      (<<"old">> :> Dir) @@ (<<"old", "x.jar">> :> File("stale")),
      (<<"a-1.jar">> :> File("stale")),
      (<<"stale.txt">> :> File("stale")) @@ (<<"old">> :> Dir)
         @@ (<<"old", "x.jar">> :> File("stale")) @@ (<<"old", "sub">> :> Dir) }

IsPrefix(p, q) == Len(p) <= Len(q) /\ SubSeq(q, 1, Len(p)) = p

\* for f in files: os.unlink(os.path.join(root, f))   (176-177), root = WORKSPACE
UnlinkFiles(w) ==
    [p \in { q \in DOMAIN w : ~(Len(q) = 1 /\ w[q].kind = "file") } |-> w[p]]

\* for d in dirs: shutil.rmtree(os.path.join(root, d)) (178-179), root = WORKSPACE
RmTreeDirs(w) ==
    LET top == { q \in DOMAIN w : Len(q) = 1 /\ w[q].kind = "dir" }
    IN  [p \in { q \in DOMAIN w : ~(\E d \in top : IsPrefix(d, q)) } |-> w[p]]

\* A reset that walks into the sub-directories and unlinks their files, but
\* never removes a directory.
WalkUnlinkOnly(w) ==
    [p \in { q \in DOMAIN w : w[q].kind = "dir" } |-> w[p]]

\* os.walk(WORKSPACE), top-down (175-179): the first triple is the workspace
\* itself; its files are unlinked and its directories removed with all they
\* hold, so the directories os.walk goes on to list no longer exist and yield
\* nothing (os.walk ignores the scandir error).
WalkAndRemove(w) == RmTreeDirs(UnlinkFiles(w))

\* The loop goes on after an exception (189-190).
OnExceptionPropagates == "crashed"
OnException == "loop"

\* _copy_java_dependency (198-204): a tier that returns True ends the call,
\* anything falsy hands over to the next tier.
AfterTierNoShortCircuit(found, nextTier) == nextTier
AfterTier(found, nextTier) == IF found THEN "loop" ELSE nextTier

Log(c, tier, res) ==
    [attempts EXCEPT ![c] = Append(@, [tier |-> tier, res |-> res])]

InitCopy ==
    /\ deps \in DepSets
    /\ mavenHome \in BOOLEAN
    /\ gradleHome \in BOOLEAN
    /\ env = [c \in deps |-> [maven |-> "unknown", gradle |-> "unknown",
                              remote |-> "unknown"]]
    /\ wsExists \in BOOLEAN
    /\ ws \in (IF wsExists THEN StaleSets ELSE {<<>>})
    /\ pc = "start"
    /\ pending = deps
    /\ cur = "none"
    /\ attempts = [c \in deps |-> <<>>]
    /\ status = [c \in deps |-> "pending"]
    /\ run = 1
    /\ firstNames = {}
    /\ stale = <<>>
    /\ IdleJson /\ IdleGradle /\ IdleReport

\* 172-183: create the workspace, or empty it.
ResetWorkspace ==
    /\ pc = "start"
    /\ wsExists' = TRUE
    /\ ws' = IF wsExists THEN WalkAndRemove(ws) ELSE <<>>
    /\ pc' = "loop"
    /\ UNCHANGED <<jsonVars, gradleVars, reportVars>>
    /\ UNCHANGED <<deps, mavenHome, gradleHome, env, pending, cur, attempts,
                   status, run, firstNames, stale>>

\* 185: the for loop takes the next element of the set, in the set's order.
NextDep ==
    /\ pc = "loop"
    /\ pending # {}
    /\ \E c \in pending :
         /\ cur' = c
         /\ pending' = pending \ {c}
    /\ pc' = "maven"
    /\ UNCHANGED <<jsonVars, gradleVars, reportVars>>
    /\ UNCHANGED <<deps, mavenHome, gradleHome, env, wsExists, ws, attempts,
                   status, run, firstNames, stale>>

\* 198: os.path.exists(maven_home) is false, _copy_maven_dependency is not called.
SkipMaven ==
    /\ pc = "maven"
    /\ ~mavenHome
    /\ pc' = "gradle"
    /\ UNCHANGED <<jsonVars, gradleVars, reportVars>>
    /\ UNCHANGED <<deps, mavenHome, gradleHome, env, wsExists, ws, pending, cur,
                   attempts, status, run, firstNames, stale>>

\* 198-199, 207-222: _copy_maven_dependency.
TryMaven ==
    /\ pc = "maven"
    /\ mavenHome
    /\ \E o \in Answers(env[cur].maven, MavenOutcomes) :
         /\ env' = [env EXCEPT ![cur].maven = o]
         /\ attempts' = Log(cur, "maven", o)
         /\ ws' = IF o = "hit" THEN WriteFile(ws, FileName(cur), Str(cur)) ELSE ws
         /\ IF o = "err"
              THEN /\ status' = [status EXCEPT ![cur] = "failed"]
                   /\ pc' = OnException
              ELSE /\ pc' = AfterTier(o = "hit", "gradle")
                   /\ status' = IF o = "hit"
                                  THEN [status EXCEPT ![cur] = "resolved"]
                                  ELSE status
    /\ UNCHANGED <<jsonVars, gradleVars, reportVars>>
    /\ UNCHANGED <<deps, mavenHome, gradleHome, wsExists, pending, cur, run, firstNames,
                   stale>>

\* 201: os.path.exists(gradle_home) is false, _copy_gradle_dependency is not called.
SkipGradle ==
    /\ pc = "gradle"
    /\ ~gradleHome
    /\ pc' = "remote"
    /\ UNCHANGED <<jsonVars, gradleVars, reportVars>>
    /\ UNCHANGED <<deps, mavenHome, gradleHome, env, wsExists, ws, pending, cur,
                   attempts, status, run, firstNames, stale>>

\* 201-202, 225-244: _copy_gradle_dependency.
TryGradle ==
    /\ pc = "gradle"
    /\ gradleHome
    /\ \E o \in Answers(env[cur].gradle, GradleOutcomes) :
         /\ env' = [env EXCEPT ![cur].gradle = o]
         /\ attempts' = Log(cur, "gradle", o)
         /\ ws' = IF o = "hit" THEN WriteFile(ws, FileName(cur), Str(cur)) ELSE ws
         /\ IF o = "err"
              THEN /\ status' = [status EXCEPT ![cur] = "failed"]
                   /\ pc' = OnException
              ELSE /\ pc' = AfterTier(o = "hit", "remote")
                   /\ status' = IF o = "hit"
                                  THEN [status EXCEPT ![cur] = "resolved"]
                                  ELSE status
    /\ UNCHANGED <<jsonVars, gradleVars, reportVars>>
    /\ UNCHANGED <<deps, mavenHome, gradleHome, wsExists, pending, cur, run, firstNames,
                   stale>>

\* 204, 247-259: _copy_maven_central_dependency.  The with statement opens the
\* URL first and the local file second: when urlopen raises, the local file
\* is never opened; when it returns, open(local_file, "wb") has created (or
\* truncated) the file before the status is looked at.
\*   ok      -> body written, True                       -> resolved
\*   httperr -> URLError caught at 257, False            -> missing (188)
\*   non200  -> return False at 254, file left empty     -> missing (188)
\*   readerr -> not a URLError: reaches the except at 189 -> failed
TryRemote ==
    /\ pc = "remote"
    /\ \E o \in Answers(env[cur].remote, RemoteOutcomes) :
         /\ env' = [env EXCEPT ![cur].remote = o]
         /\ attempts' = Log(cur, "remote", o)
         /\ ws' = CASE o = "ok" -> WriteFile(ws, FileName(cur), Str(cur))
                    [] o = "httperr" -> ws
                    [] OTHER -> WriteFile(ws, FileName(cur), "")
         /\ status' = [status EXCEPT ![cur] =
                          CASE o = "ok" -> "resolved"
                            [] o = "readerr" -> "failed"
                            [] OTHER -> "missing"]
         /\ pc' = IF o = "readerr" THEN OnException ELSE "loop"
    /\ UNCHANGED <<jsonVars, gradleVars, reportVars>>
    /\ UNCHANGED <<deps, mavenHome, gradleHome, wsExists, pending, cur, run, firstNames,
                   stale>>

\* The for loop is exhausted: _copy_java_dependencies returns.
CopyDone ==
    /\ pc = "loop"
    /\ pending = {}
    /\ pc' = "done"
    /\ cur' = "none"
    /\ firstNames' = IF run = 1 THEN DOMAIN ws ELSE firstNames
    /\ UNCHANGED <<jsonVars, gradleVars, reportVars>>
    /\ UNCHANGED <<deps, mavenHome, gradleHome, env, wsExists, ws, pending,
                   attempts, status, run, stale>>

\* The program is started again on the same coordinates, caches and registry;
\* in between, anything may have been put into the workspace.
SecondRun ==
    /\ pc = "done"
    /\ run = 1
    /\ run' = 2
    /\ stale' \in StaleSets
    /\ ws' = stale' @@ ws
    /\ pc' = "start"
    /\ pending' = deps
    /\ attempts' = [c \in deps |-> <<>>]
    /\ status' = [c \in deps |-> "pending"]
    /\ UNCHANGED <<jsonVars, gradleVars, reportVars>>
    /\ UNCHANGED <<deps, mavenHome, gradleHome, env, wsExists, cur, firstNames>>

NextCopy ==
    \/ ResetWorkspace
    \/ NextDep
    \/ SkipMaven
    \/ TryMaven
    \/ SkipGradle
    \/ TryGradle
    \/ TryRemote
    \/ CopyDone
    \/ SecondRun

SpecCopy == InitCopy /\ [][NextCopy]_vars


(***************************************************************************)
(* Properties of the copy.                                                 *)
(***************************************************************************)
Rank(tier) == CASE tier = "maven" -> 1 [] tier = "gradle" -> 2 [] tier = "remote" -> 3

Succeeded(a) == a.res \in {"hit", "ok"}

MissedBefore(a, i, tier) ==
    \E k \in 1..(i - 1) : a[k] = [tier |-> tier, res |-> "miss"]

\* C1: for every coordinate the tiers are called in the order Maven cache,
\* Gradle cache, registry; a tier whose cache root is absent is not called; a
\* success is the last call made for the coordinate and the coordinate is
\* then resolved; the Gradle tier is called only after the Maven tier was
\* skipped or missed, the registry only after both local tiers were skipped
\* or missed.
C1_TierOrder ==
    \A c \in deps :
      LET a == attempts[c] IN
        /\ \A i, j \in 1..Len(a) : i < j => Rank(a[i].tier) < Rank(a[j].tier)
        /\ \A i \in 1..Len(a) :
             /\ Succeeded(a[i]) => (i = Len(a) /\ status[c] = "resolved")
             /\ a[i].tier = "maven" => mavenHome
             /\ a[i].tier = "gradle" =>
                  /\ gradleHome
                  /\ (~mavenHome \/ MissedBefore(a, i, "maven"))
             /\ a[i].tier = "remote" =>
                  /\ (~mavenHome \/ MissedBefore(a, i, "maven"))
                  /\ (~gradleHome \/ MissedBefore(a, i, "gradle"))
        /\ status[c] = "resolved" => (Len(a) > 0 /\ Succeeded(a[Len(a)]))

\* The run is over; one coordinate missed the Maven cache and was copied from
\* the Gradle cache, another missed both caches and came from the registry.
C1_Witness ==
    /\ pc = "done"
    /\ \E c \in deps :
         attempts[c] = << [tier |-> "maven", res |-> "miss"],
                          [tier |-> "gradle", res |-> "hit"] >>
    /\ \E c \in deps :
         /\ Len(attempts[c]) = 3
         /\ attempts[c][3] = [tier |-> "remote", res |-> "ok"]

\* C2: when the copy ends, any two distinct resolved coordinates have
\* distinct destination file names, and the file of every resolved
\* coordinate holds that coordinate's artifact.
C2_OneFilePerResolved ==
    pc = "done" =>
      /\ \A c, d \in deps :
           (c # d /\ status[c] = "resolved" /\ status[d] = "resolved")
             => FileName(c) # FileName(d)
      /\ \A c \in deps :
           status[c] = "resolved" =>
             /\ <<FileName(c)>> \in DOMAIN ws
             /\ ws[<<FileName(c)>>] = File(Str(c))

C4_FailureDoesNotStopRun ==
    /\ pc # "crashed"
    /\ pc = "done" =>
         \A c \in deps : status[c] # "pending" /\ attempts[c] # <<>>

\* The run is over; one coordinate failed with an exception and another one
\* was resolved all the same.
C4_Witness ==
    /\ pc = "done"
    /\ \E c, d \in deps :
         /\ status[c] = "failed"
         /\ status[d] = "resolved"
         /\ attempts[d] # <<>>

\* C10: when the copy ends, every path of the workspace is the destination
\* file of a coordinate that was resolved.
C10_OnlyResolvedFiles ==
    pc = "done" =>
      \A p \in DOMAIN ws :
        \E c \in deps : status[c] = "resolved" /\ p = <<FileName(c)>>


(***************************************************************************)
(* _extract_maven_dependencies (sniffer.py 262-297).                       *)
(*                                                                         *)
(* The document json.load returns is a tree of dict objects.  Node i of    *)
(* the document is parsed[i]; its "children" value is a list of nodes.     *)
(* The work list holds references to these objects, here their numbers.    *)
(***************************************************************************)
\* The field values a node may carry: two triples, each with two payloads.
NodeFields ==
    { [groupId |-> "g", artifactId |-> "a", version |-> "1", scope |-> "compile", type |-> "jar"],
      [groupId |-> "g", artifactId |-> "a", version |-> "1", scope |-> "test", type |-> "pom"],
      [groupId |-> "g", artifactId |-> "b", version |-> "1", scope |-> "compile", type |-> "jar"],
      [groupId |-> "g", artifactId |-> "b", version |-> "1", scope |-> "test", type |-> "jar"] }

\* The sequence of the elements of the set of numbers S, ascending.
RECURSIVE Ascending(_)
Ascending(S) ==
    IF S = {} THEN <<>>
    ELSE LET m == CHOOSE x \in S : \A y \in S : x <= y
         IN  <<m>> \o Ascending(S \ {m})

\* The documents: n nodes, node i > 1 hangs under an earlier node or, in a
\* top-level array, stands beside node 1 (parent 0).  A node without
\* children either has no "children" key or an empty list under it.
JsonDocuments ==
    { [n |-> n, isList |-> l, parent |-> par, fields |-> f, leafKey |-> k] :
        n \in {0}, l \in {TRUE}, par \in {<<>>}, f \in {<<>>}, k \in {FALSE} }
    \cup
    UNION { { [n |-> n, isList |-> l, parent |-> par, fields |-> f, leafKey |-> k] :
                l \in BOOLEAN,
                par \in { q \in [1..n -> 0..(n - 1)] :
                            /\ q[1] = 0
                            /\ \A i \in 2..n : q[i] < i },
                f \in [1..n -> NodeFields],
                k \in BOOLEAN }
            : n \in 1..MaxNodes }

ValidDocument(doc) ==
    doc.isList \/ \A i \in 2..doc.n : doc.parent[i] # 0

ChildrenOf(doc, i) == Ascending({ j \in 1..doc.n : doc.parent[j] = i })

\* The dict of node i: "children" in dep is hasChildren.
NodeObject(doc, i) ==
    [ groupId |-> doc.fields[i].groupId,
      artifactId |-> doc.fields[i].artifactId,
      version |-> doc.fields[i].version,
      scope |-> doc.fields[i].scope,
      type |-> doc.fields[i].type,
      hasChildren |-> (ChildrenOf(doc, i) # <<>> \/ doc.leafKey),
      children |-> ChildrenOf(doc, i) ]

InitJson ==
    /\ \E doc \in JsonDocuments :
         /\ ValidDocument(doc)
         /\ parsed = [i \in 1..doc.n |-> NodeObject(doc, i)]
         /\ roots = [isList |-> doc.isList, top |-> ChildrenOf(doc, 0)]
    /\ json_deps = <<>>
    /\ dependencies = {}
    /\ visited = <<>>
    /\ jpc = "load"
    /\ IdleCopy /\ IdleGradle /\ IdleReport

\* 278-281: a list seeds the work list with its elements, an object with itself.
SeedWorkList(r) == IF r.isList THEN r.top ELSE <<r.top[1]>>

JsonLoad ==
    /\ jpc = "load"
    /\ json_deps' = SeedWorkList(roots)
    /\ jpc' = "loop"
    /\ UNCHANGED <<parsed, roots, dependencies, visited>>
    /\ UNCHANGED <<copyVars, gradleVars, reportVars>>

\* 294-295: the children of the popped node go to the end of the work list.
Extend(rest, dep) == IF dep.hasChildren THEN rest \o dep.children ELSE rest

\* 283-295: one iteration of the while loop.
JsonPop ==
    /\ jpc = "loop"
    /\ json_deps # <<>>
    /\ LET id  == Head(json_deps)
           dep == parsed[id]
       IN  /\ dependencies' =
                SetAdd(dependencies,
                       Dependency(dep.groupId, dep.artifactId, dep.version,
                                  dep.scope, dep.type))
           /\ json_deps' = Extend(Tail(json_deps), dep)
           /\ visited' = Append(visited, id)
    /\ UNCHANGED <<parsed, roots, jpc>>
    /\ UNCHANGED <<copyVars, gradleVars, reportVars>>

\* 283, 297: the work list is empty, the set is returned.
JsonReturn ==
    /\ jpc = "loop"
    /\ json_deps = <<>>
    /\ jpc' = "done"
    /\ UNCHANGED <<parsed, roots, json_deps, dependencies, visited>>
    /\ UNCHANGED <<copyVars, gradleVars, reportVars>>

NextJson ==
    \/ JsonLoad
    \/ JsonPop
    \/ JsonReturn

SpecJson == InitJson /\ [][NextJson]_vars

SameTriple(d, node) ==
    /\ d.group_id = node.groupId
    /\ d.artifact_id = node.artifactId
    /\ d.version = node.version

\* C5: when the parse returns, every node of the document has been popped
\* exactly once, the set holds exactly one coordinate for the triple of every
\* node, and every coordinate of the set is the triple of some node.
C5_OnePerTriple ==
    jpc = "done" =>
      /\ Len(visited) = Len(parsed)
      /\ { visited[i] : i \in 1..Len(visited) } = DOMAIN parsed
      /\ \A i \in DOMAIN parsed :
           Cardinality({ d \in dependencies : SameTriple(d, parsed[i]) }) = 1
      /\ \A d \in dependencies : \E i \in DOMAIN parsed : SameTriple(d, parsed[i])

\* The parse has returned on a document in which a nested child repeats the
\* triple of another node with another scope and type.
C5_Witness ==
    /\ jpc = "done"
    /\ \E i, j \in DOMAIN parsed :
         /\ i # j
         /\ \E k \in DOMAIN parsed :
              \E m \in 1..Len(parsed[k].children) : parsed[k].children[m] = j
         /\ parsed[i].artifactId = parsed[j].artifactId
         /\ parsed[i].scope # parsed[j].scope
         /\ parsed[i].type # parsed[j].type
    /\ Cardinality(dependencies) = 2


(***************************************************************************)
(* Python's str operations, on sequences of one-character strings.         *)
(* Positions are Python's: the first character has index 0.                *)
(***************************************************************************)
IsSpace(ch) == ch \in {" ", "\t"}

\* s[a:b] for 0 <= a, b
Slice(s, a, b) == SubSeq(s, a + 1, IF b > Len(s) THEN Len(s) ELSE b)

\* s[a:]
SliceFrom(s, a) == SubSeq(s, a + 1, Len(s))

StartsAt(s, sub, i) ==
    /\ i + Len(sub) <= Len(s)
    /\ SubSeq(s, i + 1, i + Len(sub)) = sub

\* s.find(sub): the lowest index at which sub starts, or -1.
Find(s, sub) ==
    IF \E i \in 0..Len(s) : StartsAt(s, sub, i)
      THEN CHOOSE i \in 0..Len(s) :
             /\ StartsAt(s, sub, i)
             /\ \A k \in 0..(i - 1) : ~StartsAt(s, sub, k)
      ELSE -1

\* s.rfind(sub): the highest index at which sub starts, or -1.
RFind(s, sub) ==
    IF \E i \in 0..Len(s) : StartsAt(s, sub, i)
      THEN CHOOSE i \in 0..Len(s) :
             /\ StartsAt(s, sub, i)
             /\ \A k \in (i + 1)..Len(s) : ~StartsAt(s, sub, k)
      ELSE -1

RECURSIVE LStrip(_)
LStrip(s) == IF s # <<>> /\ IsSpace(Head(s)) THEN LStrip(Tail(s)) ELSE s

RECURSIVE RStrip(_)
RStrip(s) ==
    IF s # <<>> /\ IsSpace(s[Len(s)]) THEN RStrip(SubSeq(s, 1, Len(s) - 1)) ELSE s

\* s.strip()
Strip(s) == LStrip(RStrip(s))

\* s.split(sep) for a one-character sep
RECURSIVE Split(_, _)
Split(s, sep) ==
    LET i == Find(s, <<sep>>)
    IN  IF i < 0 THEN <<s>>
        ELSE <<Slice(s, 0, i)>> \o Split(SliceFrom(s, i + 1), sep)


(***************************************************************************)
(* _extract_gradle_dependencies (sniffer.py 300-326).                      *)
(***************************************************************************)
Marker == <<"-", "-", "-", " ">>

\* [+\\]---<space> starts at (1-based) position p of the line.
MarkerAt(l, p) ==
    /\ p + 4 <= Len(l)
    /\ l[p] \in {"+", "\\"}
    /\ SubSeq(l, p + 1, p + 4) = Marker

\* \S+:\S+:.+$ matches all of s: two colons, a non-empty run without
\* whitespace before the first and between the two, at least one character
\* after the second.  (\S matches a colon too.)
CoordinatesMatch(s) ==
    \E i, j \in 1..Len(s) :
      /\ 2 <= i /\ i + 2 <= j /\ j < Len(s)
      /\ s[i] = ":" /\ s[j] = ":"
      /\ \A k \in 1..(j - 1) : ~IsSpace(s[k])

MatchStart(l, p) == MarkerAt(l, p) /\ CoordinatesMatch(SubSeq(l, p + 5, Len(l)))

\* 310-311: re.search finds the leftmost position at which the pattern matches.
Matches(l) == \E p \in 1..Len(l) : MatchStart(l, p)

\* 312: match.group(1)
Coordinates(l) ==
    LET p == CHOOSE q \in 1..Len(l) :
               MatchStart(l, q) /\ \A k \in 1..(q - 1) : ~MatchStart(l, k)
    IN  SubSeq(l, p + 5, Len(l))

SkipSpaces(s, i) ==
    IF \E k \in i..Len(s) : ~IsSpace(s[k])
      THEN CHOOSE k \in i..Len(s) :
             ~IsSpace(s[k]) /\ \A m \in i..(k - 1) : IsSpace(s[m])
      ELSE Len(s) + 1

\* The last ")" that closes a "(" at position j with something in between, or 0.
LastClose(s, j) ==
    IF \E q \in (j + 2)..Len(s) : s[q] = ")"
      THEN CHOOSE q \in (j + 2)..Len(s) :
             s[q] = ")" /\ \A m \in (q + 1)..Len(s) : s[m] # ")"
      ELSE 0

\* 321: re.sub(r"\s*(?:\(.+\))?\s*", "", version), from (1-based) position i.
\* At each position the pattern takes the whitespace there, then, if a "("
\* follows that has a ")" somewhere after it, everything up to the last ")",
\* then the whitespace after that.  What it takes is deleted; where it takes
\* nothing the character is kept and the scan moves on by one.
RECURSIVE ReSub(_, _)
ReSub(s, i) ==
    IF i > Len(s) THEN <<>>
    ELSE LET j == SkipSpaces(s, i)
             q == IF j <= Len(s) /\ s[j] = "(" THEN LastClose(s, j) ELSE 0
         IN  IF q > 0 THEN ReSub(s, SkipSpaces(s, q + 1))
             ELSE IF j > i THEN ReSub(s, j)
             ELSE <<s[i]>> \o ReSub(s, i + 1)

Arrow == <<" ", "-", ">", " ">>

\* 317-321
NormalizeVersion(part) ==
    LET version == Strip(part)
        upgraded_version_idx == Find(version, Arrow)
        resolved == IF upgraded_version_idx >= 0
                      THEN Strip(SliceFrom(version, upgraded_version_idx + 4))
                      ELSE version
    IN  ReSub(resolved, 1)

NoScope == "None"

\* 311-324: the body of the loop for one line.
ProcessLine(l) ==
    IF ~Matches(l) THEN [kind |-> "ignored"]
    ELSE LET parts == Split(Coordinates(l), ":")
         IN  IF Len(parts) < 3
               THEN [kind |-> "skipped"]      \* IndexError, logged at 324
               ELSE [kind |-> "dep",
                     dep |-> Dependency(Strip(parts[1]), Strip(parts[2]),
                                        NormalizeVersion(parts[3]), NoScope, "jar")]

RECURSIVE Flatten(_)
Flatten(ss) == IF ss = <<>> THEN <<>> ELSE Head(ss) \o Flatten(Tail(ss))

\* The pieces raw versions are made of: two versions, the upgrade arrow, the
\* "(*)" annotation and Gradle's FAILED mark.
VersionTokens ==
    { <<"1", ".", "0">>, <<"1", ".", "2">>, Arrow, <<" ", "(", "*", ")">>,
      <<" ", "F", "A", "I", "L", "E", "D">> }

TokenSeqs(max) == UNION { [1..k -> VersionTokens] : k \in 1..max }

RawVersions(max) == { Flatten(t) : t \in TokenSeqs(max) }

LinePrefixes ==
    { <<"+">> \o Marker, <<"\\">> \o Marker,
      <<"|", " ", " ", " ", " ", "+">> \o Marker, <<" ", " ", " ", " ">> }

\* group:artifact:version, the same with a fourth part, and group:artifact.
CoordinateStrings ==
    { <<"g", ":", "a", ":">> \o v \o t :
        v \in RawVersions(MaxLineTokens), t \in { <<>>, <<":", "t">> } }
    \cup { <<"g", ":", "a">> }

Lines == { pre \o c : pre \in LinePrefixes, c \in CoordinateStrings }

InitGradle ==
    /\ gpc = "loop"
    /\ nread = 0
    /\ line = <<>>
    /\ emitted = [kind |-> "idle"]
    /\ gdeps = {}
    /\ IdleCopy /\ IdleJson /\ IdleReport

\* 309-324: the next line of the file is read and handled.
GradleLine ==
    /\ gpc = "loop"
    /\ nread < MaxLines
    /\ \E l \in Lines :
         LET r == ProcessLine(l)
         IN  /\ line' = l
             /\ emitted' = r
             /\ gdeps' = IF r.kind = "dep" THEN SetAdd(gdeps, r.dep) ELSE gdeps
    /\ nread' = nread + 1
    /\ UNCHANGED gpc
    /\ UNCHANGED <<copyVars, jsonVars, reportVars>>

\* 309, 326: the file is exhausted, the set is returned.
GradleReturn ==
    /\ gpc = "loop"
    /\ gpc' = "done"
    /\ UNCHANGED <<nread, line, emitted, gdeps>>
    /\ UNCHANGED <<copyVars, jsonVars, reportVars>>

NextGradle ==
    \/ GradleLine
    \/ GradleReturn

SpecGradle == InitGradle /\ [][NextGradle]_vars

(***************************************************************************)
(* The version normalization of lines 317-321 on its own: the third part   *)
(* of a coordinate string goes in, the version of the Dependency comes     *)
(* out.                                                                    *)
(***************************************************************************)
VersionNumbers == { <<"1", ".", "0">>, <<"1", ".", "2">> }

\* The third part of a coordinate string as Gradle writes it: a version
\* number, then arrows, each followed by a version number, annotations and
\* marks.
VersionParts ==
    { Flatten(t) :
        t \in { u \in TokenSeqs(MaxVersionTokens) :
                  /\ u[1] \in VersionNumbers
                  /\ \A i \in 1..Len(u) :
                       u[i] = Arrow => (i < Len(u) /\ u[i + 1] \in VersionNumbers) } }

InitVersion ==
    /\ gpc = "raw"
    /\ nread = 0
    /\ line \in VersionParts
    /\ emitted = [kind |-> "idle"]
    /\ gdeps = {}
    /\ IdleCopy /\ IdleJson /\ IdleReport

Normalize ==
    /\ gpc = "raw"
    /\ emitted' = [kind |-> "version", version |-> NormalizeVersion(line)]
    /\ gpc' = "normalized"
    /\ UNCHANGED <<nread, line, gdeps>>
    /\ UNCHANGED <<copyVars, jsonVars, reportVars>>

NextVersion == Normalize

SpecVersion == InitVersion /\ [][NextVersion]_vars


(***************************************************************************)
(* Properties of the text-tree parser.                                     *)
(***************************************************************************)
\* C7: a matched line whose coordinate string does not split on ":" into
\* exactly three parts is skipped and adds no coordinate; a matched line that
\* splits into exactly three parts emits one coordinate, which is then in the
\* result set.
C7_OnlyThreePartsEmit ==
    (nread > 0 /\ Matches(line)) =>
      LET parts == Split(Coordinates(line), ":")
      IN  /\ Len(parts) # 3 => emitted.kind = "skipped"
          /\ Len(parts) = 3 =>
               /\ emitted.kind = "dep"
               /\ \E d \in gdeps :
                    /\ d.group_id = emitted.dep.group_id
                    /\ d.artifact_id = emitted.dep.artifact_id
                    /\ d.version = emitted.dep.version

\* The normalization as the claim words it: what follows the first " -> "
\* when there is one, then the parenthesized annotation and the whitespace
\* around it removed.
AfterArrow(raw) ==
    IF Find(raw, Arrow) >= 0 THEN SliceFrom(raw, Find(raw, Arrow) + 4) ELSE raw

WithoutAnnotation(v) ==
    LET open  == Find(v, <<"(">>)
        close == RFind(v, <<")">>)
    IN  IF open >= 0 /\ close > open
          THEN RStrip(Slice(v, 0, open)) \o LStrip(SliceFrom(v, close + 1))
          ELSE v

ClaimedVersion(raw) == Strip(WithoutAnnotation(AfterArrow(raw)))

\* C9: the version emitted for a raw version is what follows its first
\* " -> " (when it has one) without the parenthesized annotation and the
\* whitespace around it; a raw version with neither arrow nor annotation is
\* emitted unchanged.
C9_VersionNormalized ==
    gpc = "normalized" =>
      /\ emitted.version = ClaimedVersion(line)
      /\ (Find(line, Arrow) < 0 /\ Find(line, <<"(">>) < 0) =>
           emitted.version = Strip(line)


(***************************************************************************)
(* _analyze_java_dependencies, _find_java_packages, _find_java_artifact    *)
(* (sniffer.py 76-167).                                                    *)
(***************************************************************************)
\* WORKSPACE (line 20), here "/w".
WORKSPACE == <<"/", "w">>

\* args.package.replace(".", "/") (119), here the package "x".
vm_package == <<"x">>

IsWordChar(ch) ==
    ch \in {"a", "b", "c", "d", "e", "f", "g", "h", "i", "j", "k", "l", "m",
            "n", "o", "p", "q", "r", "s", "t", "u", "v", "w", "x", "y", "z",
            "0", "1", "2", "3", "4", "5", "6", "7", "8", "9", "_"}

\* re.search(r"\b" + re.escape(vm_package), file) (140-141): the package
\* starts at a position where a word begins.
PackageFound(file) ==
    \E i \in 0..Len(file) :
      /\ StartsAt(file, vm_package, i)
      /\ (i = 0 \/ ~IsWordChar(file[i]))

\* The paths the search utility may report, as the "file" of a match.
MatchFiles ==
    { <<"/", "w", "/", "a", "{", "x", "}">>,
      <<"/", "w", "/", "a", "{", "y", "x", "}">>,
      <<"/", "w", "/", "b", "{", "x", "}">>,
      <<"/", "w", "/", "x">> }

MatchLists == UNION { [1..k -> MatchFiles] : k \in 0..MaxMatches }

\* What subprocess.run returns: the error stream, the exit status, and the
\* output, which is a JSON list of matches or something json.loads rejects.
ToolResults ==
    [ stderr : {"empty", "nonempty"},
      returncode : {0, 1, 2},
      stdout : [valid : {TRUE}, matches : MatchLists]
               \cup [valid : {FALSE}, matches : {<<>>}] ]

InitReport ==
    /\ mode \in {"package", "artifact"}
    /\ tool \in ToolResults
    /\ rpc = "search"
    /\ result = <<>>
    /\ grouped = <<>>
    /\ output = <<>>
    /\ IdleCopy /\ IdleJson /\ IdleGradle

\* A search that never looks at the error stream.
StderrIgnored(t) == FALSE

\* 135-137, 162-164: if len(result.stderr) > 0: raise RuntimeError(error)
SearchFailed(t) == t.stderr = "nonempty"

RECURSIVE Filter(_, _)
Filter(files, m) ==
    IF files = <<>> THEN <<>>
    ELSE (IF m = "artifact" \/ PackageFound(Head(files)) THEN <<Head(files)>> ELSE <<>>)
         \o Filter(Tail(files), m)

\* 78-90, 116-167: the search is run; an error stream or an output that is
\* no JSON raises and ends the program; no match prints the "not found" line.
RunSearch ==
    /\ rpc = "search"
    /\ IF SearchFailed(tool) \/ ~tool.stdout.valid
         THEN /\ rpc' = "failed"
              /\ UNCHANGED <<result, output>>
         ELSE LET found == Filter(tool.stdout.matches, mode)
              IN  /\ result' = found
                  /\ IF Len(found) = 0
                       THEN /\ output' = << [kind |-> "notfound"] >>
                            /\ rpc' = "done"
                       ELSE /\ output' = output
                            /\ rpc' = "group"
    /\ UNCHANGED <<mode, tool, grouped>>
    /\ UNCHANGED <<copyVars, jsonVars, gradleVars>>

\* item[a:b] with Python's reading of a negative b.
PySlice(s, a, b) ==
    LET e == IF b < 0 THEN Len(s) + b ELSE b
    IN  IF e < 0 THEN <<>> ELSE Slice(s, a, e)

\* 94-102
ParentFile(item) ==
    LET start == Find(item, <<"{">>)
    IN  IF start >= 0 THEN PySlice(item, Len(WORKSPACE) + 1, start) ELSE item

ChildrenRef(item) ==
    LET start == Find(item, <<"{">>)
        end   == RFind(item, <<"}">>)
    IN  IF start >= 0 THEN PySlice(item, start + 1, end) ELSE item

\* 103-104: dependencies.setdefault(parent_file, []).append(children_ref);
\* a dict keeps its keys in the order they were first set.
AddMatch(d, key, ref) ==
    IF \E i \in 1..Len(d) : d[i].key = key
      THEN [i \in 1..Len(d) |->
              IF d[i].key = key
                THEN [key |-> key, files |-> Append(d[i].files, ref)]
                ELSE d[i]]
      ELSE Append(d, [key |-> key, files |-> <<ref>>])

RECURSIVE GroupAll(_, _)
GroupAll(d, items) ==
    IF items = <<>> THEN d
    ELSE GroupAll(AddMatch(d, ParentFile(Head(items)), ChildrenRef(Head(items))),
                  Tail(items))

\* 92-104: the loop over the matches.
GroupMatches ==
    /\ rpc = "group"
    /\ grouped' = GroupAll(<<>>, result)
    /\ rpc' = "report"
    /\ UNCHANGED <<mode, tool, result, output>>
    /\ UNCHANGED <<copyVars, jsonVars, gradleVars>>

\* The mark is printed as soon as the cap is reached.
TruncatedAtCap(files) == Len(files) >= MAX_FILES_PER_DEPENDENCY

\* 112: if len(files) > MAX_FILES_PER_DEPENDENCY
Truncated(files) == Len(files) > MAX_FILES_PER_DEPENDENCY

\* 110: itertools.islice(files, MAX_FILES_PER_DEPENDENCY)
ISlice(files, n) == SubSeq(files, 1, IF Len(files) < n THEN Len(files) ELSE n)

\* 108-114: what is printed for one key of the dict.
Section(index, entry) ==
    << [kind |-> "header", index |-> index, dep |-> entry.key] >>
    \o [i \in 1..Len(ISlice(entry.files, MAX_FILES_PER_DEPENDENCY)) |->
          [kind |-> "file", file |-> entry.files[i]]]
    \o (IF Truncated(entry.files) THEN << [kind |-> "more"] >> ELSE <<>>)
    \o << [kind |-> "blank"] >>

RECURSIVE Sections(_, _)
Sections(d, index) ==
    IF index > Len(d) THEN <<>>
    ELSE Section(index, d[index]) \o Sections(d, index + 1)

\* 106-114: the report is printed.
WriteReport ==
    /\ rpc = "report"
    /\ output' = << [kind |-> "summary", count |-> Len(grouped)] >>
                 \o Sections(grouped, 1)
    /\ rpc' = "done"
    /\ UNCHANGED <<mode, tool, result, grouped>>
    /\ UNCHANGED <<copyVars, jsonVars, gradleVars>>

NextReport ==
    \/ RunSearch
    \/ GroupMatches
    \/ WriteReport

SpecReport == InitReport /\ [][NextReport]_vars


(***************************************************************************)
(* Properties of the search and of the report.                             *)
(***************************************************************************)
\* The references of the matches of one owner, in the order of arrival.
RECURSIVE RefsOf(_, _)
RefsOf(items, owner) ==
    IF items = <<>> THEN <<>>
    ELSE (IF ParentFile(Head(items)) = owner
            THEN <<ChildrenRef(Head(items))>> ELSE <<>>)
         \o RefsOf(Tail(items), owner)

Owners == { ParentFile(result[i]) : i \in 1..Len(result) }

IsHeaderOf(l, owner) == l.kind = "header" /\ l.dep = owner
IsFileLine(l) == l.kind = "file"
IsMoreLine(l) == l.kind = "more"

\* The lines printed between the header of the owner and the blank line that
\* ends its group.
GroupOf(owner) ==
    LET h == CHOOSE i \in 1..Len(output) : IsHeaderOf(output[i], owner)
        e == CHOOSE i \in (h + 1)..Len(output) :
               /\ output[i].kind = "blank"
               /\ \A k \in (h + 1)..(i - 1) : output[k].kind # "blank"
    IN  SubSeq(output, h + 1, e - 1)

\* C6: in the report, the group of every owner with n matches lists exactly
\* min(n, 3) references, the first ones in the order of arrival, followed by
\* exactly one overflow mark when n > 3 and by none when n <= 3.
C6_CappedGroups ==
    (rpc = "done" /\ result # <<>>) =>
      \A owner \in Owners :
        LET refs  == RefsOf(result, owner)
            n     == Len(refs)
            shown == IF n < 3 THEN n ELSE 3
        IN  /\ Cardinality({ i \in 1..Len(output) : IsHeaderOf(output[i], owner) }) = 1
            /\ LET group == GroupOf(owner)
                   files == SelectSeq(group, IsFileLine)
                   marks == SelectSeq(group, IsMoreLine)
               IN  /\ Len(files) = shown
                   /\ \A i \in 1..shown : files[i].file = refs[i]
                   /\ Len(marks) = (IF n > 3 THEN 1 ELSE 0)
                   /\ \A i \in 1..Len(group) : IsMoreLine(group[i]) => i = Len(group)

\* The report is printed for five matches of one owner, not all with the same
\* reference.
C6_Witness ==
    /\ rpc = "done"
    /\ Len(result) = 5
    /\ \E owner \in Owners :
         /\ Len(RefsOf(result, owner)) = 5
         /\ RefsOf(result, owner)[1] # RefsOf(result, owner)[4]

\* C8 as stated: after the search, a non-empty error stream or a non-zero
\* exit status means the program has failed, no match list was returned and
\* nothing was printed.
C8_StderrOrExitStatusFatal ==
    (rpc # "search" /\ (tool.stderr = "nonempty" \/ tool.returncode # 0)) =>
      (rpc = "failed" /\ result = <<>> /\ output = <<>>)

\* C8, amended: after the search, a non-empty error stream means the program
\* has failed, no match list was returned and nothing was printed, whatever
\* the exit status and the output of the utility.
C8_StderrFatal ==
    (rpc # "search" /\ tool.stderr = "nonempty") =>
      (rpc = "failed" /\ result = <<>> /\ output = <<>>)

\* The program has failed on an error stream although the utility ended with
\* status 0 and a well-formed list of matches.
C8_Witness ==
    /\ rpc = "failed"
    /\ tool.stderr = "nonempty"
    /\ tool.returncode = 0
    /\ tool.stdout.valid
    /\ tool.stdout.matches # <<>>

====
